---- MODULE Spec2Model ----
(***************************************************************************)
(* Model of the resilient request executor of ynab-cli:                    *)
(* Client.request (internal/api/client.go) and the error predicates of     *)
(* internal/api/errors.go.  One call of Client.request is a small state    *)
(* machine: the loop head (sleep + backoff doubling), one HTTP attempt     *)
(* with the handling of its outcome, and the exit of the loop.             *)
(* Durations are counted in seconds (InitialBackoff = 1 * time.Second).    *)
(***************************************************************************)
EXTENDS Integers, Sequences, FiniteSets, TLC

VARIABLES
    pc,         \* position of the caller: "idle", "loop", "send", "done"
    calls,      \* number of calls of Client.request that have returned
    reqOK,      \* whether http.NewRequest accepts the method and URL
    attempt,    \* loop variable `attempt`
    backoff,    \* local `backoff`, in seconds
    lastErr,    \* local `lastErr`
    events,     \* observable history of the call: HTTP attempts and sleeps
    result,     \* the pair (body, error) returned by the call
    reqIn,      \* arguments of the call: method, endpoint, body (io.Reader)
    rdPos,      \* read position of the body reader passed to the call
    inflight,   \* HTTP requests sent whose exchange has not completed
    client,     \* the Client: token, baseURL, defaultBudgetID
    server,     \* the responses the server of this run may give
    peer,       \* frame of a second goroutine calling Client.request
    probe,      \* a YNABError handed to IsRetryable, and the answer
    stack,      \* the API methods in progress above Client.request, innermost first
    ret,        \* what the API method that has just returned gave its caller
    ynab,       \* the server's data: budgeted amount of each category of the month
    move        \* the locals of a run of MoveCmd

\* the locals and arguments of one invocation of Client.request
frame == <<pc, reqOK, attempt, backoff, lastErr, events, result, reqIn, rdPos, inflight>>

\* what Client.request never writes
outer == <<client, server, peer, probe, stack, ret, ynab, move>>

vars == <<pc, calls, reqOK, attempt, backoff, lastErr, events, result,
          reqIn, rdPos, inflight, client, server, peer, probe, stack, ret,
          ynab, move>>

----------------------------------------------------------------------------
(* Program constants                                                       *)

MaxRetries == 3

InitialBackoff == 1

DefaultRetryAfter == 60

StatusUnauthorized == 401

StatusTooManyRequests == 429

(* Bound of the model: number of calls made one after the other.           *)
MaxCalls == 2

(* Bound of the model: largest status code handed to IsRetryable.          *)
MaxStatusCode == 650

----------------------------------------------------------------------------
(* Errors.  A Go error value is a record; NoErr is the nil error.          *)
(* Message is kept structured: fmt names the format string, n and s its    *)
(* arguments.                                                              *)

NoErr == [type |-> "nil"]

NoBody == [parsable |-> FALSE, id |-> "", name |-> "", detail |-> "", budgets |-> <<>>]

Msg(f, n, s) == [fmt |-> f, n |-> n, s |-> s]

YNABError(message, status, errorID, detail) ==
    [type |-> "YNABError", Message |-> message, StatusCode |-> status,
     ErrorID |-> errorID, Detail |-> detail]

\* fmt.Errorf("<text>: %w", inner)
Errorf(text, inner) == [type |-> "wrap", text |-> text, inner |-> inner]

\* the error returned by http.Client.Do or io.ReadAll (not a *YNABError)
TransportErr == [type |-> "transport"]

\* errors.As(err, &ynabErr): first *YNABError of the chain, or NoErr
RECURSIVE AsYNABError(_)
AsYNABError(err) ==
    IF err.type = "YNABError" THEN err
    ELSE IF err.type = "wrap" THEN AsYNABError(err.inner)
    ELSE NoErr

IsYNABError(err) == AsYNABError(err) # NoErr

YIsAuthError(e) == e.StatusCode = StatusUnauthorized

YIsRateLimitError(e) == e.StatusCode = StatusTooManyRequests

YIsServerError_ClientToo(e) == e.StatusCode >= 400 /\ e.StatusCode < 600

YIsServerError_NoUpper(e) == e.StatusCode >= 500

YIsServerError(e) == e.StatusCode >= 500 /\ e.StatusCode < 600

YIsRetryable_ServerOnly(e) == YIsServerError(e)

YIsRetryable_NotFoundToo(e) ==
    YIsRateLimitError(e) \/ YIsServerError(e) \/ e.StatusCode = 404

YIsRetryable(e) == YIsRateLimitError(e) \/ YIsServerError(e)

IsAuthError(err) == IsYNABError(err) /\ YIsAuthError(AsYNABError(err))

IsRateLimitError(err) == IsYNABError(err) /\ YIsRateLimitError(AsYNABError(err))

IsServerError(err) == IsYNABError(err) /\ YIsServerError(AsYNABError(err))

NewAuthError_Forbidden ==
    YNABError(Msg("Unauthorized: Invalid or missing access token", 0, ""),
              403, "",
              "Please check your YNAB_ACCESS_TOKEN environment variable")

NewAuthError ==
    YNABError(Msg("Unauthorized: Invalid or missing access token", 0, ""),
              StatusUnauthorized, "",
              "Please check your YNAB_ACCESS_TOKEN environment variable")

NewRateLimitError_ServiceUnavailable(retryAfter) ==
    YNABError(Msg("Rate limit exceeded. Retry after %d seconds", retryAfter, ""),
              503, "",
              "YNAB API has rate limits. Please wait before retrying")

NewRateLimitError(retryAfter) ==
    YNABError(Msg("Rate limit exceeded. Retry after %d seconds", retryAfter, ""),
              StatusTooManyRequests, "",
              "YNAB API has rate limits. Please wait before retrying")

----------------------------------------------------------------------------
(* strconv.Atoi on a header value, a sequence of one-character strings.    *)

Digits == <<"0", "1", "2", "3", "4", "5", "6", "7", "8", "9">>

IsDigit(c) == \E i \in 1..Len(Digits) : Digits[i] = c

DigitVal(c) == (CHOOSE i \in 1..Len(Digits) : Digits[i] = c) - 1

RECURSIVE DecVal(_)
DecVal(s) ==
    IF s = <<>> THEN 0
    ELSE DecVal(SubSeq(s, 1, Len(s) - 1)) * 10 + DigitVal(s[Len(s)])

AllDigits(s) == s # <<>> /\ \A i \in 1..Len(s) : IsDigit(s[i])

\* [ok |-> err == nil, val |-> the parsed int]
Atoi(s) ==
    IF s = <<>> THEN [ok |-> FALSE, val |-> 0]
    ELSE IF s[1] \in {"+", "-"}
         THEN IF AllDigits(Tail(s))
              THEN [ok |-> TRUE,
                    val |-> IF s[1] = "-" THEN 0 - DecVal(Tail(s)) ELSE DecVal(Tail(s))]
              ELSE [ok |-> FALSE, val |-> 0]
    ELSE IF AllDigits(s) THEN [ok |-> TRUE, val |-> DecVal(s)]
    ELSE [ok |-> FALSE, val |-> 0]

\* the retryAfter computed in the 429 branch from the Retry-After header
\* (resp.Header.Get returns "" for an absent header)
RetryAfterOf(retryHeader) ==
    IF retryHeader # <<>> /\ Atoi(retryHeader).ok
    THEN Atoi(retryHeader).val
    ELSE DefaultRetryAfter

----------------------------------------------------------------------------
(* Inputs: what the server (or the transport) answers to one attempt.      *)

\* response bodies: an error envelope with a name, JSON without an error
\* name (e.g. a data payload), and bytes json.Unmarshal rejects
BodyEnvelope == [parsable |-> TRUE, id |-> "e1", name |-> "Bad Request",
                 detail |-> "missing field", budgets |-> <<>>]

BodyData == [parsable |-> TRUE, id |-> "", name |-> "", detail |-> "", budgets |-> <<>>]

\* an error envelope whose name is empty
BodyNoName == [parsable |-> TRUE, id |-> "e2", name |-> "", detail |-> "d2",
               budgets |-> <<>>]

Bodies == {BodyEnvelope, BodyData, NoBody}

\* Retry-After header values: absent, "0", "5", "-5", "+2", "x"
RetryAfterHeaders == {<<>>, <<"0">>, <<"5">>, <<"-", "5">>, <<"+", "2">>, <<"x">>}

Resp(status, hdr, body) == [status |-> status, hdr |-> hdr, body |-> body]

\* the responses a server may give to an attempt
Responses ==
    {Resp(StatusTooManyRequests, h, BodyData) : h \in RetryAfterHeaders}
    \cup {Resp(StatusTooManyRequests, <<>>, BodyEnvelope)}
    \cup {Resp(st, <<>>, b) : st \in {400, 401, 404, 500}, b \in Bodies}
    \cup {Resp(st, <<>>, BodyNoName) : st \in {400, 500}}
    \cup {Resp(st, <<>>, NoBody) : st \in {100, 301, 403, 599, 600}}
    \cup {Resp(200, <<>>, BodyData), Resp(200, <<>>, NoBody), Resp(204, <<>>, NoBody)}

----------------------------------------------------------------------------
(* Requests.  Strings built by concatenation are kept as tuples of parts.  *)

ReqArgs(method, endpoint, hasBody, data) ==
    [method |-> method, endpoint |-> endpoint, hasBody |-> hasBody, data |-> data]

NoArgs == ReqArgs("", "", FALSE, <<>>)

NoRequest ==
    [method |-> "", url |-> <<>>, auth |-> <<>>, ctype |-> "", ua |-> "", body |-> <<>>]

\* what http.NewRequest takes from body: the bytes the reader has left
\* (a nil body gives no body)
RemainingBody == IF reqIn.hasBody THEN SubSeq(reqIn.data, rdPos + 1, Len(reqIn.data)) ELSE <<>>

BuildRequest_AuthOnFirstOnly ==
    [method |-> reqIn.method,
     url |-> <<client.baseURL, reqIn.endpoint>>,
     auth |-> IF attempt = 0 THEN <<"Bearer ", client.token>> ELSE <<>>,
     ctype |-> "application/json",
     ua |-> "Via-YNAB/2.0",
     body |-> RemainingBody]

\* url := c.baseURL + endpoint; http.NewRequest(method, url, body); headers
BuildRequest ==
    [method |-> reqIn.method,
     url |-> <<client.baseURL, reqIn.endpoint>>,
     auth |-> <<"Bearer ", client.token>>,
     ctype |-> "application/json",
     ua |-> "Via-YNAB/2.0",
     body |-> RemainingBody]

----------------------------------------------------------------------------
(* The observable history of a call.                                       *)

\* a completed exchange (or a failed one): the request sent and the outcome
AttemptEv(kind, r) ==
    [type |-> "attempt", kind |-> kind, status |-> r.status, hdr |-> r.hdr,
     body |-> r.body, d |-> 0, req |-> Head(inflight)]

\* time.Sleep(d): d is the duration asked for; d <= 0 returns at once
SleepEv(kind, d) ==
    [type |-> "sleep", kind |-> kind, status |-> 0, hdr |-> <<>>,
     body |-> NoBody, d |-> d, req |-> NoRequest]

NoResult == [body |-> NoBody, err |-> NoErr, set |-> FALSE]

Returned(body, err) == [body |-> body, err |-> err, set |-> TRUE]

----------------------------------------------------------------------------
(* Client.request                                                          *)

\* NewClient(token)
NewClient == [token |-> "test-token", baseURL |-> "https://api", defaultBudgetID |-> ""]

InitFrame ==
    /\ pc = "idle"
    /\ reqOK = TRUE
    /\ attempt = 0
    /\ backoff = InitialBackoff
    /\ lastErr = NoErr
    /\ events = <<>>
    /\ result = NoResult
    /\ reqIn = NoArgs
    /\ rdPos = 0
    /\ inflight = <<>>

\* the frame of a goroutine that is not inside Client.request
IdleFrame ==
    [pc |-> "idle", reqOK |-> TRUE, attempt |-> 0, backoff |-> InitialBackoff,
     lastErr |-> NoErr, events |-> <<>>, result |-> NoResult, reqIn |-> NoArgs,
     rdPos |-> 0, inflight |-> <<>>]

NoProbe == [e |-> NoErr, verdict |-> "none"]

\* the categories of the budget, by ID
CategoryIDs == {"c1", "c2", "c3"}

\* no server data: the run does not follow the budgeted amounts
NoData == [c \in CategoryIDs |-> 0]

\* MoveCmd is not running
NoMove ==
    [stage |-> "idle", amount |-> 0, from |-> <<>>, to |-> <<>>, fromID |-> "",
     toID |-> "", fromBudgeted |-> 0, toBudgeted |-> 0, err |-> NoErr, before |-> NoData]

\* a TransactionRequest (the fields the model follows)
Txn(budgetID, accountID, date, cleared) ==
    [BudgetID |-> budgetID, AccountID |-> accountID, Date |-> date, Cleared |-> cleared]

NoTxn == Txn("", "", "", "")

\* the return of an API method: its name, the *TransactionRequest it was
\* given (before and after the call), the value and error returned, and the
\* number of HTTP attempts made on its behalf
Ret(fn, arg, req, val, err, n) ==
    [fn |-> fn, arg |-> arg, req |-> req, val |-> val, err |-> err, n |-> n, set |-> TRUE]

NoRet == [fn |-> "", arg |-> NoTxn, req |-> NoTxn, val |-> "", err |-> NoErr, n |-> 0,
          set |-> FALSE]

Init ==
    /\ InitFrame
    /\ calls = 0
    /\ client = NewClient
    /\ server = Responses
    /\ peer = IdleFrame
    /\ probe = NoProbe
    /\ stack = <<>>
    /\ ret = NoRet
    /\ ynab = NoData
    /\ move = NoMove

\* entry of Client.request(method, endpoint, body): var lastErr error;
\* backoff := InitialBackoff; attempt := 0
Enter(args, ok) ==
    /\ reqIn' = args
    /\ reqOK' = ok
    /\ rdPos' = 0
    /\ inflight' = <<>>
    /\ attempt' = 0
    /\ backoff' = InitialBackoff
    /\ lastErr' = NoErr
    /\ events' = <<>>
    /\ result' = NoResult
    /\ pc' = "loop"

\* client.request("GET", "/test", nil)
Call ==
    /\ pc = "idle"
    /\ calls < MaxCalls
    /\ \E ok \in BOOLEAN : Enter(ReqArgs("GET", "/test", FALSE, <<>>), ok)
    /\ UNCHANGED calls
    /\ UNCHANGED outer

LoopCond_OneMore(a) == a <= MaxRetries + 1

\* for ...; attempt <= MaxRetries; ...
LoopCond(a) == a <= MaxRetries

NextBackoff_Linear(b) == b + 1

NextBackoff_Clamped(b) == IF b * 2 > 2 THEN 2 ELSE b * 2

\* backoff *= 2
NextBackoff(b) == b * 2

LoopHead_Jitter ==
    /\ pc = "loop"
    /\ LoopCond(attempt)
    /\ IF attempt > 0
       THEN /\ \E jitter \in {0, 1} :
                  events' = Append(events, SleepEv("backoff", backoff + jitter))
            /\ backoff' = NextBackoff(backoff)
       ELSE UNCHANGED <<events, backoff>>
    /\ pc' = "send"
    /\ UNCHANGED <<calls, reqOK, attempt, lastErr, result, reqIn, rdPos, inflight>>
    /\ UNCHANGED outer

\* loop head: if attempt > 0 { time.Sleep(backoff); backoff *= 2 }
LoopHead ==
    /\ pc = "loop"
    /\ LoopCond(attempt)
    /\ IF attempt > 0
       THEN /\ events' = Append(events, SleepEv("backoff", backoff))
            /\ backoff' = NextBackoff(backoff)
       ELSE UNCHANGED <<events, backoff>>
    /\ pc' = "send"
    /\ UNCHANGED <<calls, reqOK, attempt, lastErr, result, reqIn, rdPos, inflight>>
    /\ UNCHANGED outer

\* http.NewRequest fails: return nil, "failed to create request"
NewRequestFails ==
    /\ pc = "send"
    /\ ~reqOK
    /\ result' = Returned(NoBody, Errorf("failed to create request", TransportErr))
    /\ pc' = "done"
    /\ UNCHANGED <<calls, reqOK, attempt, backoff, lastErr, events, reqIn, rdPos, inflight>>
    /\ UNCHANGED outer

SendRequest_Async ==
    /\ pc = "send"
    /\ reqOK
    /\ inflight' = Append(inflight, BuildRequest)
    /\ attempt' = attempt + 1
    /\ pc' = "loop"
    /\ UNCHANGED <<calls, reqOK, backoff, lastErr, events, result, reqIn, rdPos>>
    /\ UNCHANGED outer

\* http.NewRequest succeeds and c.httpClient.Do(req) sends the request; Do
\* blocks the caller until the exchange completes
SendRequest ==
    /\ pc = "send"
    /\ reqOK
    /\ inflight' = Append(inflight, BuildRequest)
    /\ pc' = "wait"
    /\ UNCHANGED <<calls, reqOK, attempt, backoff, lastErr, events, result, reqIn, rdPos>>
    /\ UNCHANGED outer

\* the exchange is over; the transport has read the whole request body
Completed ==
    /\ inflight' = Tail(inflight)
    /\ rdPos' = IF reqIn.hasBody THEN Len(reqIn.data) ELSE rdPos

\* `continue`: the post statement attempt++ and back to the loop condition
Continue ==
    /\ attempt' = attempt + 1
    /\ pc' = "loop"
    /\ UNCHANGED <<calls, reqOK, result, reqIn>>
    /\ UNCHANGED outer

TransportFailure_NoRetry ==
    /\ pc = "wait"
    /\ events' = Append(events, AttemptEv("neterr", Resp(0, <<>>, NoBody)))
    /\ result' = Returned(NoBody, Errorf("request failed", TransportErr))
    /\ inflight' = Tail(inflight)
    /\ \E n \in rdPos..Len(reqIn.data) : rdPos' = n
    /\ pc' = "done"
    /\ UNCHANGED <<calls, reqOK, attempt, backoff, lastErr, reqIn>>
    /\ UNCHANGED outer

\* c.httpClient.Do(req) returns an error; the transport may have read none,
\* part or all of the request body before failing
TransportFailure ==
    /\ pc = "wait"
    /\ events' = Append(events, AttemptEv("neterr", Resp(0, <<>>, NoBody)))
    /\ lastErr' = Errorf("request failed", TransportErr)
    /\ inflight' = Tail(inflight)
    /\ \E n \in rdPos..Len(reqIn.data) : rdPos' = n
    /\ UNCHANGED backoff
    /\ Continue

\* io.ReadAll(resp.Body) returns an error
ReadFailure ==
    /\ pc = "wait"
    /\ \E st \in {200, 500} :
          events' = Append(events, AttemptEv("readerr", Resp(st, <<>>, NoBody)))
    /\ lastErr' = Errorf("failed to read response", TransportErr)
    /\ Completed
    /\ UNCHANGED backoff
    /\ Continue

\* resp.StatusCode == 429
RateLimited ==
    /\ pc = "wait"
    /\ \E r \in server :
          LET retryAfter == RetryAfterOf(r.hdr) IN
          /\ r.status = StatusTooManyRequests
          /\ lastErr' = NewRateLimitError(retryAfter)
          /\ events' = events \o <<AttemptEv("resp", r), SleepEv("ratelimit", retryAfter)>>
    /\ Completed
    /\ UNCHANGED backoff
    /\ Continue

IsSuccess_Only200(status) == status = 200

\* the negation of: resp.StatusCode < 200 || resp.StatusCode >= 300
IsSuccess(status) == ~(status < 200 \/ status >= 300)

ParseErrorResponse_KeepFields(r) ==
    IF r.body.parsable /\ r.body.name # ""
    THEN YNABError(Msg("name", 0, r.body.name), r.status, r.body.id, r.body.detail)
    ELSE YNABError(Msg("HTTP request failed: %s", r.status, ""), r.status,
                   r.body.id, r.body.detail)

ParseErrorResponse_NoID(r) ==
    IF r.body.parsable /\ r.body.name # ""
    THEN YNABError(Msg("name", 0, r.body.name), r.status, "", r.body.detail)
    ELSE YNABError(Msg("HTTP request failed: %s", r.status, ""), r.status, "", "")

\* the *YNABError built from a non-2xx response
ParseErrorResponse(r) ==
    IF r.body.parsable /\ r.body.name # ""
    THEN YNABError(Msg("name", 0, r.body.name), r.status, r.body.id, r.body.detail)
    ELSE YNABError(Msg("HTTP request failed: %s", r.status, ""), r.status, "", "")

KeepFirstErr(prev, new) == IF prev = NoErr THEN new ELSE prev

\* lastErr = ynabErr
RecordErr(prev, new) == new

ErrorResponse_IdempotentOnly ==
    /\ pc = "wait"
    /\ \E r \in server :
          LET ynabErr == ParseErrorResponse(r) IN
          /\ r.status # StatusTooManyRequests
          /\ ~IsSuccess(r.status)
          /\ events' = Append(events, AttemptEv("resp", r))
          /\ IF r.status = StatusUnauthorized
             THEN /\ result' = Returned(NoBody, NewAuthError)
                  /\ pc' = "done"
                  /\ UNCHANGED <<calls, reqOK, attempt, lastErr, reqIn>>
                  /\ UNCHANGED outer
             ELSE IF YIsServerError(ynabErr) /\ reqIn.method # "POST"
             THEN /\ lastErr' = RecordErr(lastErr, ynabErr)
                  /\ Continue
             ELSE /\ result' = Returned(NoBody, ynabErr)
                  /\ pc' = "done"
                  /\ UNCHANGED <<calls, reqOK, attempt, lastErr, reqIn>>
                  /\ UNCHANGED outer
    /\ Completed
    /\ UNCHANGED backoff

\* non-2xx status other than 429
ErrorResponse ==
    /\ pc = "wait"
    /\ \E r \in server :
          LET ynabErr == ParseErrorResponse(r) IN
          /\ r.status # StatusTooManyRequests
          /\ ~IsSuccess(r.status)
          /\ events' = Append(events, AttemptEv("resp", r))
          /\ IF r.status = StatusUnauthorized
             THEN /\ result' = Returned(NoBody, NewAuthError)
                  /\ pc' = "done"
                  /\ UNCHANGED <<calls, reqOK, attempt, lastErr, reqIn>>
                  /\ UNCHANGED outer
             ELSE IF YIsServerError(ynabErr)
             THEN /\ lastErr' = RecordErr(lastErr, ynabErr)
                  /\ Continue
             ELSE /\ result' = Returned(NoBody, ynabErr)
                  /\ pc' = "done"
                  /\ UNCHANGED <<calls, reqOK, attempt, lastErr, reqIn>>
                  /\ UNCHANGED outer
    /\ Completed
    /\ UNCHANGED backoff

\* 2xx: return respBody, nil
Success ==
    /\ pc = "wait"
    /\ \E r \in server :
          /\ r.status # StatusTooManyRequests
          /\ IsSuccess(r.status)
          /\ events' = Append(events, AttemptEv("resp", r))
          /\ result' = Returned(r.body, NoErr)
    /\ Completed
    /\ pc' = "done"
    /\ UNCHANGED <<calls, reqOK, attempt, backoff, lastErr, reqIn>>
    /\ UNCHANGED outer

\* the error returned when all retries are exhausted
ExhaustedErr(le) ==
    IF le # NoErr
    THEN Errorf("request failed after %d retries", le)
    ELSE [type |-> "plain", text |-> "request failed after %d retries"]

Exhausted_Hangs ==
    /\ pc = "loop"
    /\ ~LoopCond(attempt)
    /\ UNCHANGED vars

\* the loop ends: all retries exhausted
Exhausted ==
    /\ pc = "loop"
    /\ ~LoopCond(attempt)
    /\ result' = Returned(NoBody, ExhaustedErr(lastErr))
    /\ pc' = "done"
    /\ UNCHANGED <<calls, reqOK, attempt, backoff, lastErr, events, reqIn, rdPos, inflight>>
    /\ UNCHANGED outer

\* the locals of a call that has returned are gone
DropFrame ==
    /\ pc' = "idle"
    /\ reqOK' = TRUE
    /\ attempt' = 0
    /\ backoff' = InitialBackoff
    /\ lastErr' = NoErr
    /\ events' = <<>>
    /\ result' = NoResult
    /\ reqIn' = NoArgs
    /\ rdPos' = 0
    /\ inflight' = <<>>

\* the caller takes the result of client.request
Return ==
    /\ pc = "done"
    /\ calls' = calls + 1
    /\ DropFrame
    /\ UNCHANGED outer

\* the steps of Client.request once entered
RequestStep ==
    \/ LoopHead
    \/ NewRequestFails
    \/ SendRequest
    \/ TransportFailure
    \/ ReadFailure
    \/ RateLimited
    \/ ErrorResponse
    \/ Success
    \/ Exhausted

Next ==
    \/ Call
    \/ LoopHead
    \/ NewRequestFails
    \/ SendRequest
    \/ TransportFailure
    \/ ReadFailure
    \/ RateLimited
    \/ ErrorResponse
    \/ Success
    \/ Exhausted
    \/ Return

Spec == Init /\ [][Next]_vars

\* the calling goroutine keeps running: every time.Sleep returns, and every
\* httpClient.Do returns a response or an error (the client has a Timeout)
Fairness == WF_vars(RequestStep)

\* the responses of the run that checks termination: every Retry-After
\* value, and one status of each class the loop distinguishes
LiveResponses ==
    {Resp(StatusTooManyRequests, h, BodyData) : h \in RetryAfterHeaders}
    \cup {Resp(st, <<>>, NoBody) : st \in {100, 400, 401, 500, 599, 600}}
    \cup {Resp(400, <<>>, BodyEnvelope), Resp(200, <<>>, BodyData)}

InitLive ==
    /\ InitFrame
    /\ calls = 0
    /\ client = NewClient
    /\ server = LiveResponses
    /\ peer = IdleFrame
    /\ probe = NoProbe
    /\ stack = <<>>
    /\ ret = NoRet
    /\ ynab = NoData
    /\ move = NoMove

SpecLive == InitLive /\ [][Next]_vars /\ Fairness

----------------------------------------------------------------------------
(* Client.request run to completion by a single caller, as a function of   *)
(* the outcomes of its attempts: the number of attempts, the durations     *)
(* passed to time.Sleep, and the result.                                   *)

RunEnd(n, sleeps, res, fin) ==
    [attempts |-> n, sleeps |-> sleeps, result |-> res, finished |-> fin]

RECURSIVE RunFrom(_, _, _, _, _, _)
RunFrom(a, b, le, outs, sleeps, n) ==
    IF ~LoopCond(a) THEN RunEnd(n, sleeps, Returned(NoBody, ExhaustedErr(le)), TRUE)
    ELSE IF outs = <<>> THEN RunEnd(n, sleeps, NoResult, FALSE)
    ELSE
      LET sl == IF a > 0 THEN Append(sleeps, b) ELSE sleeps
          b1 == IF a > 0 THEN NextBackoff(b) ELSE b
          o == Head(outs)
          ynabErr == ParseErrorResponse(o)
      IN  IF o.kind = "neterr"
          THEN RunFrom(a + 1, b1, Errorf("request failed", TransportErr),
                       Tail(outs), sl, n + 1)
          ELSE IF o.kind = "readerr"
          THEN RunFrom(a + 1, b1, Errorf("failed to read response", TransportErr),
                       Tail(outs), sl, n + 1)
          ELSE IF o.status = StatusTooManyRequests
          THEN RunFrom(a + 1, b1, NewRateLimitError(RetryAfterOf(o.hdr)),
                       Tail(outs), Append(sl, RetryAfterOf(o.hdr)), n + 1)
          ELSE IF ~IsSuccess(o.status)
          THEN IF o.status = StatusUnauthorized
               THEN RunEnd(n + 1, sl, Returned(NoBody, NewAuthError), TRUE)
               ELSE IF YIsServerError(ynabErr)
               THEN RunFrom(a + 1, b1, ynabErr, Tail(outs), sl, n + 1)
               ELSE RunEnd(n + 1, sl, Returned(NoBody, ynabErr), TRUE)
          ELSE RunEnd(n + 1, sl, Returned(o.body, NoErr), TRUE)

RunAlone(outs, ok) ==
    IF ~ok
    THEN RunEnd(0, <<>>, Returned(NoBody, Errorf("failed to create request", TransportErr)),
                TRUE)
    ELSE RunFrom(0, InitialBackoff, NoErr, outs, <<>>, 0)

----------------------------------------------------------------------------
(* YNABError.IsRetryable, applied to errors of every status code           *)

StatusCodes == (0 - 1)..MaxStatusCode

InitErr ==
    /\ InitFrame
    /\ calls = 0
    /\ client = NewClient
    /\ server = {}
    /\ peer = IdleFrame
    /\ probe \in {[e |-> YNABError(Msg("", 0, ""), st, "", ""), verdict |-> "none"] :
                     st \in StatusCodes}
    /\ stack = <<>>
    /\ ret = NoRet
    /\ ynab = NoData
    /\ move = NoMove

\* err.IsRetryable()
AskRetryable ==
    /\ probe.verdict = "none"
    /\ probe.e # NoErr
    /\ probe' = [probe EXCEPT !.verdict =
                    IF YIsRetryable(probe.e) THEN "retryable" ELSE "final"]
    /\ UNCHANGED <<calls, client, server, peer, stack, ret, ynab, move>>
    /\ UNCHANGED frame

NextErr == AskRetryable

SpecErr == InitErr /\ [][NextErr]_vars

----------------------------------------------------------------------------
(* Two goroutines calling Client.request on the same Client.  The          *)
(* variables of the frame belong to the goroutine that runs; peer keeps    *)
(* the frame of the other one.                                             *)

\* the server of the concurrent runs
ConcResponses ==
    {Resp(500, <<>>, NoBody), Resp(StatusTooManyRequests, <<"5">>, BodyData),
     Resp(400, <<>>, BodyEnvelope), Resp(200, <<>>, BodyData)}

InitConc ==
    /\ InitFrame
    /\ calls = 0
    /\ client = NewClient
    /\ server = ConcResponses
    /\ peer = IdleFrame
    /\ probe = NoProbe
    /\ stack = <<>>
    /\ ret = NoRet
    /\ ynab = NoData
    /\ move = NoMove

CurrentFrame ==
    [pc |-> pc, reqOK |-> reqOK, attempt |-> attempt, backoff |-> backoff,
     lastErr |-> lastErr, events |-> events, result |-> result, reqIn |-> reqIn,
     rdPos |-> rdPos, inflight |-> inflight]

Switch_SharedBackoff ==
    /\ peer' = CurrentFrame
    /\ pc' = peer.pc
    /\ reqOK' = peer.reqOK
    /\ attempt' = peer.attempt
    /\ backoff' = backoff
    /\ lastErr' = peer.lastErr
    /\ events' = peer.events
    /\ result' = peer.result
    /\ reqIn' = peer.reqIn
    /\ rdPos' = peer.rdPos
    /\ inflight' = peer.inflight
    /\ UNCHANGED <<calls, client, server, probe, stack, ret, ynab, move>>

\* the scheduler runs the other goroutine: attempt, backoff and lastErr are
\* locals of Client.request, each goroutine has its own
Switch ==
    /\ peer' = CurrentFrame
    /\ pc' = peer.pc
    /\ reqOK' = peer.reqOK
    /\ attempt' = peer.attempt
    /\ backoff' = peer.backoff
    /\ lastErr' = peer.lastErr
    /\ events' = peer.events
    /\ result' = peer.result
    /\ reqIn' = peer.reqIn
    /\ rdPos' = peer.rdPos
    /\ inflight' = peer.inflight
    /\ UNCHANGED <<calls, client, server, probe, stack, ret, ynab, move>>

NextConc ==
    \/ Call
    \/ LoopHead
    \/ NewRequestFails
    \/ SendRequest
    \/ TransportFailure
    \/ RateLimited
    \/ ErrorResponse
    \/ Success
    \/ Exhausted
    \/ Return
    \/ Switch

SpecConc == InitConc /\ [][NextConc]_vars

----------------------------------------------------------------------------
(* Reading the history of a call                                           *)

AttemptIdx == {i \in 1..Len(events) : events[i].type = "attempt"}

SleepIdx == {i \in 1..Len(events) : events[i].type = "sleep"}

NumAttempts == Cardinality(AttemptIdx)

Is2xx(ev) == ev.type = "attempt" /\ ev.kind = "resp" /\ ev.status >= 200 /\ ev.status < 300

Is429(ev) == ev.type = "attempt" /\ ev.kind = "resp" /\ ev.status = 429

Is5xx(ev) == ev.type = "attempt" /\ ev.kind = "resp" /\ ev.status >= 500 /\ ev.status < 600

IsTransport(ev) == ev.type = "attempt" /\ ev.kind \in {"neterr", "readerr"}

IsRetryableFailure(ev) == Is429(ev) \/ Is5xx(ev) \/ IsTransport(ev)

\* a completed response that is neither 2xx, nor 429, nor 5xx
IsFatalStatus(ev) ==
    /\ ev.type = "attempt" /\ ev.kind = "resp"
    /\ ~Is2xx(ev) /\ ~Is429(ev) /\ ~Is5xx(ev)

\* time actually spent in time.Sleep(d)
Slept(ev) == IF ev.type = "sleep" /\ ev.d > 0 THEN ev.d ELSE 0

RECURSIVE SleptIn(_, _)
SleptIn(lo, hi) == IF lo > hi THEN 0 ELSE Slept(events[lo]) + SleptIn(lo + 1, hi)

RECURSIVE Pow2(_)
Pow2(n) == IF n <= 0 THEN 1 ELSE 2 * Pow2(n - 1)

\* number of attempts among events[1..i]
AttemptsUpTo(i) == Cardinality({j \in AttemptIdx : j <= i})

\* number of attempts among events[1..i] that were not answered with 429
UnthrottledUpTo(i) == Cardinality({j \in AttemptIdx : j <= i /\ ~Is429(events[j])})

LastAttempt == events[CHOOSE i \in AttemptIdx : \A j \in AttemptIdx : j <= i]

----------------------------------------------------------------------------
(* The API methods built on Client.request: GetDefaultBudgetID (through    *)
(* GetBudgets), CreateTransaction, UpdateCategoryBudget, DeleteTransaction. *)
(* A method in progress is a frame of `stack`; the steps of the request it *)
(* waits for are those of Client.request above.                            *)

\* the requests of the attempts made so far, the one in flight included
SentRequests ==
    LET as == SelectSeq(events, LAMBDA ev : ev.type = "attempt")
    IN  [i \in 1..Len(as) |-> as[i].req] \o inflight

\* errors.New(text), fmt.Errorf(text)
ErrorsNew(text) == [type |-> "plain", text |-> text]

\* the error of json.Unmarshal
JSONErr == [type |-> "json"]

\* a 200 body listing two budgets
BodyBudgets == [parsable |-> TRUE, id |-> "", name |-> "", detail |-> "",
                budgets |-> <<"b1", "b2">>]

ApiResponses ==
    {Resp(500, <<>>, NoBody), Resp(400, <<>>, BodyEnvelope),
     Resp(StatusTooManyRequests, <<"0">>, BodyData),
     Resp(200, <<>>, BodyBudgets), Resp(200, <<>>, BodyData), Resp(200, <<>>, NoBody)}

\* the requests handed to CreateTransaction: complete ones, and ones that
\* lack the account ID, the date or both
TxnRequests ==
    {Txn(b, "acc-1", "2024-01-15", c) : b \in {"", "bud"}, c \in {"", "cleared"}}
    \cup {Txn("bud", "", "2024-01-15", ""), Txn("bud", "acc-1", "", "cleared"),
          Txn("", "", "", "")}

InitAPI ==
    /\ InitFrame
    /\ calls = 0
    /\ client = NewClient
    /\ server = ApiResponses
    /\ peer = IdleFrame
    /\ probe = NoProbe
    /\ stack = <<>>
    /\ ret = NoRet
    /\ ynab = NoData
    /\ move = NoMove

Validate_NoDateCheck(r) ==
    IF r.AccountID = ""
    THEN [err |-> ErrorsNew("account_id is required"), req |-> r]
    ELSE [err |-> NoErr,
          req |-> [r EXCEPT !.Cleared = IF @ = "" THEN "uncleared" ELSE @]]

\* (r *TransactionRequest) Validate(): the error, and the struct afterwards
Validate(r) ==
    IF r.AccountID = ""
    THEN [err |-> ErrorsNew("account_id is required"), req |-> r]
    ELSE IF r.Date = ""
    THEN [err |-> ErrorsNew("date is required"), req |-> r]
    ELSE [err |-> NoErr,
          req |-> [r EXCEPT !.Cleared = IF @ = "" THEN "uncleared" ELSE @]]

Cached_Never(id) == FALSE

\* if c.defaultBudgetID != ""
Cached(id) == id # ""

\* a method in progress: its name, its categoryID or transactionID, the
\* *TransactionRequest before and after Validate, and the HTTP attempts made
\* for it by requests that have already returned
Frame(fn, id, arg, req, n) == [fn |-> fn, id |-> id, arg |-> arg, req |-> req, n |-> n]

GetFrame == Frame("GetDefaultBudgetID", "", NoTxn, NoTxn, 0)

\* json.Marshal of the transaction object, as two chunks of bytes
TxnBody(req) ==
    <<<<"account_id", req.AccountID, "date", req.Date>>, <<"cleared", req.Cleared>>>>

\* c.request("GET", "/budgets", nil)
GetBudgetsArgs == ReqArgs("GET", <<"/budgets">>, FALSE, <<>>)

\* the call of c.request each method makes once it has a budget ID
RequestOf(fr, budgetID) ==
    IF fr.fn = "CreateTransaction"
    THEN ReqArgs("POST", <<"/budgets/", budgetID, "/transactions">>, TRUE, TxnBody(fr.req))
    ELSE IF fr.fn = "UpdateCategoryBudget"
    THEN ReqArgs("PATCH", <<"/budgets/", budgetID, "/months/", "2024-01-01",
                            "/categories/", fr.id>>,
                 TRUE, <<<<"category">>, <<"budgeted", "1000">>>>)
    ELSE IF fr.fn = "UpdateTransaction"
    THEN ReqArgs("PUT", <<"/budgets/", budgetID, "/transactions/", fr.id>>,
                 TRUE, <<<<"transaction">>, <<"memo", "m">>>>)
    ELSE ReqArgs("DELETE", <<"/budgets/", budgetID, "/transactions/", fr.id>>, FALSE, <<>>)

\* main.go: budgetID := config.ResolveBudgetID(); if budgetID != "" {
\* client.SetDefaultBudgetID(budgetID) }, once, right after NewClient
SetDefaultBudgetID ==
    /\ pc = "idle"
    /\ stack = <<>>
    /\ calls = 0
    /\ client.defaultBudgetID = ""
    /\ client' = [client EXCEPT !.defaultBudgetID = "cfg"]
    /\ UNCHANGED <<calls, server, peer, probe, stack, ret, ynab, move>>
    /\ UNCHANGED frame

\* the outermost method returns to the caller
Finish(r) ==
    /\ ret' = r
    /\ calls' = calls + 1
    /\ stack' = <<>>
    /\ DropFrame

\* if budgetID == "" { budgetID, err = c.GetDefaultBudgetID() ... }, then
\* the call of c.request; GetDefaultBudgetID returns at once when the ID is
\* cached and calls GetBudgets otherwise
Begin(fr, budgetID) ==
    /\ IF budgetID # ""
       THEN /\ stack' = <<fr>>
            /\ Enter(RequestOf(fr, budgetID), TRUE)
       ELSE IF Cached(client.defaultBudgetID)
       THEN /\ stack' = <<fr>>
            /\ Enter(RequestOf(fr, client.defaultBudgetID), TRUE)
       ELSE /\ stack' = <<GetFrame, fr>>
            /\ Enter(GetBudgetsArgs, TRUE)
    /\ ret' = NoRet
    /\ UNCHANGED <<calls, client>>

\* c.GetDefaultBudgetID() called by a command
GetDefaultBudgetID ==
    /\ pc = "idle"
    /\ stack = <<>>
    /\ calls < MaxCalls
    /\ IF Cached(client.defaultBudgetID)
       THEN Finish(Ret("GetDefaultBudgetID", NoTxn, NoTxn, client.defaultBudgetID, NoErr, 0))
       ELSE /\ stack' = <<GetFrame>>
            /\ Enter(GetBudgetsArgs, TRUE)
            /\ ret' = NoRet
            /\ UNCHANGED calls
    /\ UNCHANGED <<client, server, peer, probe, ynab, move>>

DefaultBudgetFrom_NoLenCheck(res) ==
    IF res.err # NoErr
    THEN [id |-> "", err |-> Errorf("failed to get budgets", res.err)]
    ELSE IF ~res.body.parsable
    THEN [id |-> "",
          err |-> Errorf("failed to get budgets",
                         Errorf("failed to parse budgets response", JSONErr))]
    ELSE IF Len(res.body.budgets) = 0
    THEN [id |-> "", err |-> NoErr]
    ELSE [id |-> res.body.budgets[1], err |-> NoErr]

\* GetBudgets and the rest of GetDefaultBudgetID, from the result of the
\* request: the ID to return and cache, or the error
DefaultBudgetFrom(res) ==
    IF res.err # NoErr
    THEN [id |-> "", err |-> Errorf("failed to get budgets", res.err)]
    ELSE IF ~res.body.parsable
    THEN [id |-> "",
          err |-> Errorf("failed to get budgets",
                         Errorf("failed to parse budgets response", JSONErr))]
    ELSE IF Len(res.body.budgets) = 0
    THEN [id |-> "", err |-> ErrorsNew("no budgets found for this account")]
    ELSE [id |-> res.body.budgets[1], err |-> NoErr]

\* c.request("GET", "/budgets", nil) has returned to GetBudgets: the rest
\* of GetDefaultBudgetID, then the rest of the method that called it
GetBudgetsReturn ==
    /\ pc = "done"
    /\ stack # <<>>
    /\ Head(stack).fn = "GetDefaultBudgetID"
    /\ LET r == DefaultBudgetFrom(result)
           n == NumAttempts
       IN  /\ client' = IF r.err = NoErr
                        THEN [client EXCEPT !.defaultBudgetID = r.id]
                        ELSE client
           /\ IF Len(stack) = 1
              THEN Finish(Ret("GetDefaultBudgetID", NoTxn, NoTxn, r.id, r.err, n))
              ELSE LET fr == [stack[2] EXCEPT !.n = n] IN
                   IF r.err # NoErr
                   THEN Finish(Ret(fr.fn, fr.arg, fr.req, "", r.err, n))
                   ELSE /\ stack' = <<fr>>
                        /\ Enter(RequestOf(fr, r.id), TRUE)
                        /\ UNCHANGED <<calls, ret>>
    /\ UNCHANGED <<server, peer, probe, ynab, move>>

\* "failed to parse transaction response", "failed to parse category response"
ParseErrText(fn) ==
    IF fn = "UpdateCategoryBudget"
    THEN "failed to parse category response"
    ELSE "failed to parse transaction response"

\* c.request has returned to CreateTransaction, UpdateCategoryBudget,
\* UpdateTransaction or DeleteTransaction: if err != nil return it; json.Unmarshal; return
MethodReturn ==
    /\ pc = "done"
    /\ stack # <<>>
    /\ Head(stack).fn # "GetDefaultBudgetID"
    /\ LET fr == Head(stack)
           n == fr.n + NumAttempts
           err == IF result.err # NoErr THEN result.err
                  ELSE IF ~result.body.parsable
                  THEN Errorf(ParseErrText(fr.fn), JSONErr)
                  ELSE NoErr
       IN  Finish(Ret(fr.fn, fr.arg, fr.req, IF err = NoErr THEN "data" ELSE "", err, n))
    /\ UNCHANGED <<client, server, peer, probe, ynab, move>>

\* c.CreateTransaction(req)
CreateTransaction ==
    /\ pc = "idle"
    /\ stack = <<>>
    /\ calls < MaxCalls
    /\ \E arg \in TxnRequests :
          LET v == Validate(arg) IN
          IF v.err # NoErr
          THEN /\ Finish(Ret("CreateTransaction", arg, v.req, "", v.err, 0))
               /\ UNCHANGED client
          ELSE Begin(Frame("CreateTransaction", "", arg, v.req, 0), v.req.BudgetID)
    /\ UNCHANGED <<server, peer, probe, ynab, move>>

\* c.UpdateCategoryBudget(categoryID, budgeted, month, budgetID)
UpdateCategoryBudget ==
    /\ pc = "idle"
    /\ stack = <<>>
    /\ calls < MaxCalls
    /\ \E categoryID \in {"", "cat-1"}, budgetID \in {"", "bud"} :
          IF categoryID = ""
          THEN /\ Finish(Ret("UpdateCategoryBudget", NoTxn, NoTxn, "",
                             ErrorsNew("category_id is required"), 0))
               /\ UNCHANGED client
          ELSE Begin(Frame("UpdateCategoryBudget", categoryID, NoTxn, NoTxn, 0), budgetID)
    /\ UNCHANGED <<server, peer, probe, ynab, move>>

\* c.UpdateTransaction(budgetID, transactionID, txn)
UpdateTransaction ==
    /\ pc = "idle"
    /\ stack = <<>>
    /\ calls < MaxCalls
    /\ \E budgetID \in {"", "bud"} :
          Begin(Frame("UpdateTransaction", "txn-1", NoTxn, NoTxn, 0), budgetID)
    /\ UNCHANGED <<server, peer, probe, ynab, move>>

\* c.DeleteTransaction(budgetID, transactionID)
DeleteTransaction ==
    /\ pc = "idle"
    /\ stack = <<>>
    /\ calls < MaxCalls
    /\ \E budgetID \in {"", "bud"} :
          Begin(Frame("DeleteTransaction", "txn-1", NoTxn, NoTxn, 0), budgetID)
    /\ UNCHANGED <<server, peer, probe, ynab, move>>

NextAPI ==
    \/ SetDefaultBudgetID
    \/ GetDefaultBudgetID
    \/ GetBudgetsReturn
    \/ CreateTransaction
    \/ UpdateCategoryBudget
    \/ UpdateTransaction
    \/ DeleteTransaction
    \/ MethodReturn
    \/ LoopHead
    \/ SendRequest
    \/ TransportFailure
    \/ RateLimited
    \/ ErrorResponse
    \/ Success
    \/ Exhausted

SpecAPI == InitAPI /\ [][NextAPI]_vars

----------------------------------------------------------------------------
(* MoveCmd (internal/cmd/move.go).  One run of `ynab move` is one process: *)
(* a new Client, then MoveCmd; the server's data outlives the run.  Each   *)
(* API call MoveCmd makes is one step, whose outcome is that of            *)
(* Client.request run against the responses the server gives to it.       *)
(* Strings are sequences of one-character strings.                         *)

\* strings.ToLower, on the letters the model uses
LowerChar(c) == IF c = "F" THEN "f" ELSE IF c = "R" THEN "r" ELSE c

ToLower(str) == [i \in 1..Len(str) |-> LowerChar(str[i])]

\* strings.EqualFold
EqualFold(a, b) == ToLower(a) = ToLower(b)

\* strings.Contains
Contains(str, sub) ==
    \E i \in 0..(Len(str) - Len(sub)) : SubSeq(str, i + 1, i + Len(sub)) = sub

\* the category groups of the budget, flattened in the order the nested
\* loops of findCategoryID visit them: "Food", "Fun", "Rent"
Categories ==
    <<[ID |-> "c1", Name |-> <<"F", "o", "o", "d">>],
      [ID |-> "c2", Name |-> <<"F", "u", "n">>],
      [ID |-> "c3", Name |-> <<"R", "e", "n", "t">>]>>

FirstMatch_ExactOnly(cats, filter) ==
    LET exact == {i \in 1..Len(cats) : EqualFold(cats[i].Name, filter)}
    IN  IF exact # {}
        THEN cats[CHOOSE i \in exact : \A j \in exact : i <= j].ID
        ELSE ""

\* findCategoryID(groups, filter): the first exact match (ignoring case),
\* else the first category whose lowered name contains the lowered filter
findCategoryID(cats, filter) ==
    LET exact == {i \in 1..Len(cats) : EqualFold(cats[i].Name, filter)}
        partial == {i \in 1..Len(cats) : Contains(ToLower(cats[i].Name), ToLower(filter))}
    IN  IF exact # {}
        THEN cats[CHOOSE i \in exact : \A j \in exact : i <= j].ID
        ELSE IF partial # {}
        THEN cats[CHOOSE i \in partial : \A j \in partial : i <= j].ID
        ELSE ""

\* the --from and --to arguments: "food", "f", "en", "x"
Filters == {<<"f", "o", "o", "d">>, <<"f">>, <<"e", "n">>, <<"x">>}

\* the amounts moved, in milliunits
MoveAmounts == {5000}

\* the budgeted amounts a category may start with
StartAmounts == {0, 20000}

\* what the server or the transport answers to one attempt of a call
Outcome(kind, r) == [kind |-> kind, status |-> r.status, hdr |-> r.hdr, body |-> r.body]

\* the responses of the server to the calls of MoveCmd: a 200 with a
\* well-formed payload, a 200 whose body json.Unmarshal rejects, a 500
MoveResponses ==
    {Resp(200, <<>>, BodyBudgets), Resp(200, <<>>, NoBody), Resp(500, <<>>, NoBody)}

MoveOutcomes ==
    {Outcome("resp", r) : r \in MoveResponses} \cup {Outcome("neterr", Resp(0, <<>>, NoBody))}

\* the sequences of outcomes that take one call of Client.request to its return
Scripts ==
    {sc \in UNION {[1..n -> MoveOutcomes] : n \in 1..(MaxRetries + 1)} :
        RunAlone(sc, TRUE).finished /\ RunAlone(sc, TRUE).attempts = Len(sc)}

\* the request body reaches the server whole at attempt i only if no earlier
\* attempt has consumed the reader (attempts before it failed in the
\* transport); the server answers 2xx to a PATCH only then
PatchScripts ==
    {sc \in Scripts :
        \A i \in 1..Len(sc) :
            (sc[i].kind = "resp" /\ IsSuccess(sc[i].status))
            => \A j \in 1..(i - 1) : sc[j].kind = "neterr"}

\* the error an API method returns after c.request(...) and json.Unmarshal
CallErr(sc, parseText) ==
    LET res == RunAlone(sc, TRUE).result
    IN  IF res.err # NoErr THEN res.err
        ELSE IF ~res.body.parsable THEN Errorf(parseText, JSONErr)
        ELSE NoErr

\* the server answered 2xx: it has carried out the request
Served(sc) == RunAlone(sc, TRUE).result.err = NoErr

RECURSIVE SumOver(_, _)
SumOver(f, S) ==
    IF S = {} THEN 0
    ELSE LET c == CHOOSE x \in S : TRUE IN f[c] + SumOver(f, S \ {c})

InitMove ==
    /\ InitFrame
    /\ calls = 0
    /\ client = NewClient
    /\ server = MoveResponses
    /\ peer = IdleFrame
    /\ probe = NoProbe
    /\ stack = <<>>
    /\ ret = NoRet
    /\ ynab \in [CategoryIDs -> StartAmounts]
    /\ move = NoMove

\* MoveCmd returns err (nil or not)
MoveReturn(m, err) == move' = [m EXCEPT !.stage = "returned", !.err = err]

\* main.go creates the client and sets the default budget ID the config
\* file may hold; MoveCmd starts with client.GetDefaultBudgetID()
MoveStart ==
    /\ move.stage = "idle"
    /\ calls < MaxCalls
    /\ \E amount \in MoveAmounts, from \in Filters, to \in Filters, cfg \in {"", "cfg"} :
       \E sc \in IF Cached(cfg) THEN {<<>>} ELSE Scripts :
          LET m == [NoMove EXCEPT !.amount = amount, !.from = from, !.to = to,
                                  !.before = ynab]
              b == IF Cached(cfg)
                   THEN [id |-> cfg, err |-> NoErr]
                   ELSE DefaultBudgetFrom(RunAlone(sc, TRUE).result)
          IN  /\ client' = [NewClient EXCEPT !.defaultBudgetID = b.id]
              /\ IF b.err # NoErr
                 THEN MoveReturn(m, b.err)
                 ELSE move' = [m EXCEPT !.stage = "categories"]
    /\ UNCHANGED <<calls, server, peer, probe, stack, ret, ynab>>
    /\ UNCHANGED frame

\* groups, err := client.GetCategories(budgetID), then findCategoryID twice
MoveGetCategories ==
    /\ move.stage = "categories"
    /\ \E sc \in Scripts :
          LET err == CallErr(sc, "failed to parse categories response")
              fromID == findCategoryID(Categories, move.from)
              toID == findCategoryID(Categories, move.to)
          IN  IF err # NoErr
              THEN MoveReturn(move, Errorf("failed to get categories", err))
              ELSE IF fromID = ""
              THEN MoveReturn(move, ErrorsNew("no category found matching '%s' (from)"))
              ELSE IF toID = ""
              THEN MoveReturn([move EXCEPT !.fromID = fromID],
                              ErrorsNew("no category found matching '%s' (to)"))
              ELSE move' = [move EXCEPT !.stage = "month", !.fromID = fromID, !.toID = toID]
    /\ UNCHANGED <<calls, client, server, peer, probe, stack, ret, ynab>>
    /\ UNCHANGED frame

\* monthData, err := client.GetMonth(budgetID, month), then the loop that
\* reads fromBudgeted and toBudgeted
MoveGetMonth ==
    /\ move.stage = "month"
    /\ \E sc \in Scripts :
          LET err == CallErr(sc, "failed to parse month response")
          IN  IF err # NoErr
              THEN MoveReturn(move, Errorf("failed to get month data", err))
              ELSE move' = [move EXCEPT !.stage = "source",
                                        !.fromBudgeted = ynab[move.fromID],
                                        !.toBudgeted = ynab[move.toID]]
    /\ UNCHANGED <<calls, client, server, peer, probe, stack, ret, ynab>>
    /\ UNCHANGED frame

\* the server's data after a PATCH of category id to the amount v
Patched(sc, id, v) == IF Served(sc) THEN [ynab EXCEPT ![id] = v] ELSE ynab

\* client.UpdateCategoryBudget(fromID, fromBudgeted - amountMilliunits, ...)
MoveUpdateSource ==
    /\ move.stage = "source"
    /\ \E sc \in PatchScripts :
          LET err == CallErr(sc, "failed to parse category response")
          IN  /\ ynab' = Patched(sc, move.fromID, move.fromBudgeted - move.amount)
              /\ IF err # NoErr
                 THEN MoveReturn(move, Errorf("failed to update source category", err))
                 ELSE move' = [move EXCEPT !.stage = "dest"]
    /\ UNCHANGED <<calls, client, server, peer, probe, stack, ret>>
    /\ UNCHANGED frame

\* client.UpdateCategoryBudget(toID, toBudgeted + amountMilliunits, ...)
MoveUpdateDest ==
    /\ move.stage = "dest"
    /\ \E sc \in PatchScripts :
          LET err == CallErr(sc, "failed to parse category response")
          IN  /\ ynab' = Patched(sc, move.toID, move.toBudgeted + move.amount)
              /\ IF err # NoErr
                 THEN move' = [move EXCEPT !.stage = "rollback", !.err = err]
                 ELSE MoveReturn(move, NoErr)
    /\ UNCHANGED <<calls, client, server, peer, probe, stack, ret>>
    /\ UNCHANGED frame

\* _, _ = client.UpdateCategoryBudget(fromID, fromBudgeted, ...); return
\* "failed to update destination category"
MoveRollback ==
    /\ move.stage = "rollback"
    /\ \E sc \in PatchScripts :
          ynab' = Patched(sc, move.fromID, move.fromBudgeted)
    /\ MoveReturn(move, Errorf("failed to update destination category", move.err))
    /\ UNCHANGED <<calls, client, server, peer, probe, stack, ret>>
    /\ UNCHANGED frame

\* the process exits
MoveExit ==
    /\ move.stage = "returned"
    /\ move' = NoMove
    /\ client' = NewClient
    /\ calls' = calls + 1
    /\ UNCHANGED <<server, peer, probe, stack, ret, ynab>>
    /\ UNCHANGED frame

NextMove ==
    \/ MoveStart
    \/ MoveGetCategories
    \/ MoveGetMonth
    \/ MoveUpdateSource
    \/ MoveUpdateDest
    \/ MoveRollback
    \/ MoveExit

SpecMove == InitMove /\ [][NextMove]_vars

----------------------------------------------------------------------------
(* Claims                                                                  *)

\* C1: one call of Client.request makes at most MaxRetries + 1 = 4 HTTP
\* attempts, and its attempt counter never decreases during the call.
C1_AttemptBound ==
    /\ [](NumAttempts <= MaxRetries + 1 /\ MaxRetries + 1 = 4)
    /\ [][(pc # "idle" /\ pc' # "idle") => attempt' >= attempt]_vars

C1_Witness == pc = "done" /\ NumAttempts = 4 /\ attempt = 4

\* C2: when the first response of a call has status 401, 400 or 404, the
\* call makes exactly one attempt, never sleeps, and returns an error.
C2_NoRetryOnClientError ==
    (/\ Len(events) > 0
     /\ events[1].type = "attempt" /\ events[1].kind = "resp"
     /\ events[1].status \in {401, 400, 404})
    => /\ Len(events) = 1
       /\ pc = "done"
       /\ result.set /\ result.err # NoErr

C2_Witness ==
    /\ pc = "done" /\ Len(events) = 1
    /\ events[1].kind = "resp" /\ events[1].status = 400
    /\ result.err # NoErr

\* C3: when every response of a call is a 5xx, the call makes exactly 4
\* attempts, sleeps 1, 2 and 4 seconds before attempts 2, 3 and 4 (7 seconds
\* in total) and returns an error.
C3_ServerErrorSchedule ==
    (pc = "done" /\ NumAttempts > 0 /\ \A i \in AttemptIdx : Is5xx(events[i]))
    => /\ NumAttempts = 4
       /\ Len(events) = 7
       /\ AttemptIdx = {1, 3, 5, 7}
       /\ <<events[2].d, events[4].d, events[6].d>> = <<1, 2, 4>>
       /\ SleptIn(1, Len(events)) = 7
       /\ result.set /\ result.err # NoErr

C3_Witness ==
    /\ pc = "done" /\ NumAttempts = 4
    /\ \A i \in AttemptIdx : Is5xx(events[i])
    /\ SleptIn(1, Len(events)) = 7

\* C4: when an attempt is answered with 429 carrying Retry-After: N (N a
\* non-negative integer) and the next attempt succeeds, the time slept
\* between the two attempts is exactly N seconds: the rate-limit wait
\* replaces the exponential backoff and is not added to it.
C4_RetryAfterReplacesBackoff ==
    \A i \in AttemptIdx : \A j \in AttemptIdx :
        (/\ i < j
         /\ \A k \in AttemptIdx : ~(i < k /\ k < j)
         /\ Is429(events[i])
         /\ Atoi(events[i].hdr).ok /\ Atoi(events[i].hdr).val >= 0
         /\ Is2xx(events[j]))
        => SleptIn(i, j) = Atoi(events[i].hdr).val

\* C5: as soon as an attempt receives a 2xx response, the call returns that
\* response body with a nil error: no further attempt, no further sleep.
C5_SuccessReturnsAtOnce ==
    \A i \in 1..Len(events) :
        Is2xx(events[i])
        => /\ i = Len(events)
           /\ pc = "done"
           /\ result = Returned(events[i].body, NoErr)

C5_Witness ==
    /\ pc = "done" /\ Len(events) = 3
    /\ Is5xx(events[1]) /\ events[3].status = 204
    /\ result = Returned(events[3].body, NoErr)

\* C6: at any attempt index, a response whose status is outside 2xx, is not
\* 429 and is not 5xx makes the call return an error immediately: no later
\* attempt and no sleep after that response.
C6_FatalStatusReturnsAtOnce ==
    \A i \in 1..Len(events) :
        IsFatalStatus(events[i])
        => /\ i = Len(events)
           /\ pc = "done"
           /\ result.set /\ result.err # NoErr

C6_Witness ==
    /\ pc = "done" /\ NumAttempts = 3
    /\ LastAttempt.kind = "resp" /\ LastAttempt.status = 600
    /\ result.err # NoErr

\* C7: a 429 response does not advance the exponential backoff counter: the
\* backoff slept after a 5xx response is 1 second * 2^(m - 1), m counting
\* the attempts so far that were not answered with 429.
C7_ThrottleKeepsBackoff ==
    \A i \in AttemptIdx :
        (Is5xx(events[i]) /\ i < Len(events))
        => /\ events[i + 1].type = "sleep"
           /\ events[i + 1].d = InitialBackoff * Pow2(UnthrottledUpTo(i) - 1)

\* C8: the rate-limit wait chosen for a 429 response is the Retry-After
\* value when the header parses as a non-negative integer, and the default
\* of 60 seconds in every other case (absent, non-numeric, negative).
C8_RetryAfterOrDefault ==
    \A i \in AttemptIdx :
        Is429(events[i])
        => /\ i < Len(events)
           /\ events[i + 1].type = "sleep"
           /\ events[i + 1].d =
                 IF Atoi(events[i].hdr).ok /\ Atoi(events[i].hdr).val >= 0
                 THEN Atoi(events[i].hdr).val
                 ELSE 60

\* C9: when all 4 attempts of a call fail with retryable outcomes, the call
\* returns an error wrapping the error of the 4th attempt: IsServerError and
\* IsRateLimitError on it reflect the last attempt, and after a final
\* transport failure it is not a YNABError.
C9_ExhaustedWrapsLastError ==
    (/\ pc = "done"
     /\ NumAttempts = MaxRetries + 1
     /\ \A i \in AttemptIdx : IsRetryableFailure(events[i]))
    => /\ result.set
       /\ result.err.type = "wrap"
       /\ result.err.text = "request failed after %d retries"
       /\ IsServerError(result.err) <=> Is5xx(LastAttempt)
       /\ IsRateLimitError(result.err) <=> Is429(LastAttempt)
       /\ IsYNABError(result.err) <=> ~IsTransport(LastAttempt)
       /\ Is5xx(LastAttempt)
             => AsYNABError(result.err).StatusCode = LastAttempt.status

C9_Witness ==
    /\ pc = "done" /\ NumAttempts = 4
    /\ Is429(events[1]) /\ IsTransport(LastAttempt)
    /\ \A i \in AttemptIdx : IsRetryableFailure(events[i])
    /\ ~IsYNABError(result.err)

\* C10: every sleep of a call lies between two HTTP attempts of that call:
\* no time is slept before the first attempt or after the last one.
C10_SleepsBetweenAttempts ==
    pc = "done"
    => \A k \in SleepIdx :
          Slept(events[k]) > 0
          => /\ \E i \in AttemptIdx : i < k
             /\ \E j \in AttemptIdx : j > k

\* the *YNABError produced for the response of the latest attempt, when the
\* call has just handled that response (or has returned because of it)
JustAnswered ==
    /\ pc \in {"loop", "done"}
    /\ Len(events) > 0
    /\ \/ events[Len(events)].type = "attempt"
       \/ events[Len(events)].kind = "ratelimit"
    /\ LastAttempt.kind = "resp"
    /\ ~Is2xx(LastAttempt)

ErrProduced == AsYNABError(IF pc = "done" THEN result.err ELSE lastErr)

HasNamedEnvelope(ev) == ev.body.parsable /\ ev.body.name # ""

FromEnvelope(e, ev) ==
    /\ e.Message = Msg("name", 0, ev.body.name)
    /\ e.ErrorID = ev.body.id
    /\ e.Detail = ev.body.detail
    /\ e.StatusCode = ev.status

Synthetic(e, ev) ==
    /\ e.Message = Msg("HTTP request failed: %s", ev.status, "")
    /\ e.ErrorID = ""
    /\ e.Detail = ""

\* C11: the attempts of a call are strictly sequential: a request is sent
\* only when no request of the call is in flight, and every attempt after
\* the first is sent right after a sleep that has returned; a call never
\* has more than one HTTP request in flight.
C11_OneRequestInFlight ==
    /\ [](Len(inflight) <= 1)
    /\ [][Len(inflight') > Len(inflight)
          => /\ inflight = <<>>
             /\ pc = "send"
             /\ \/ events = <<>>
                \/ events[Len(events)].type = "sleep"]_vars

C11_Witness == Len(inflight) = 1 /\ NumAttempts = 3 /\ pc = "wait"

C14_SyntheticError ==
    (JustAnswered /\ ~HasNamedEnvelope(LastAttempt))
    => Synthetic(ErrProduced, LastAttempt)

\* C14 (amended): the same, for every non-2xx response other than 401 and
\* 429.
C14_SyntheticErrorExcept401And429 ==
    (/\ JustAnswered
     /\ ~HasNamedEnvelope(LastAttempt)
     /\ LastAttempt.status \notin {401, 429})
    => Synthetic(ErrProduced, LastAttempt)

C14_Witness ==
    /\ pc = "done" /\ JustAnswered
    /\ LastAttempt.status = 400 /\ LastAttempt.body = BodyNoName
    /\ result.err.ErrorID = "" /\ result.err.Detail = ""
    /\ result.err.Message.fmt = "HTTP request failed: %s"

\* C15: a 401 response at any attempt makes the call return without retry
\* an error for which IsAuthError holds and whose text tells the user to
\* check the access token, whatever the response body contains.
C15_AuthErrorOn401 ==
    \A i \in 1..Len(events) :
        (events[i].type = "attempt" /\ events[i].kind = "resp" /\ events[i].status = 401)
        => /\ i = Len(events)
           /\ pc = "done"
           /\ IsAuthError(result.err)
           /\ result.err.Message.fmt = "Unauthorized: Invalid or missing access token"
           /\ result.err.Detail = "Please check your YNAB_ACCESS_TOKEN environment variable"

C15_Witness ==
    /\ pc = "done" /\ NumAttempts = 2
    /\ LastAttempt.kind = "resp" /\ LastAttempt.status = 401
    /\ LastAttempt.body = BodyEnvelope
    /\ IsAuthError(result.err)

\* the attempts and the sleep durations of a frame's history
AttemptsOf(f) == SelectSeq(f.events, LAMBDA ev : ev.type = "attempt")

SleepsOf(f) ==
    LET ss == SelectSeq(f.events, LAMBDA ev : ev.type = "sleep")
    IN  [i \in 1..Len(ss) |-> ss[i].d]

SameAsAlone(f) ==
    LET alone == RunAlone(AttemptsOf(f), f.reqOK)
    IN  /\ alone.finished
        /\ alone.attempts = Len(AttemptsOf(f))
        /\ alone.sleeps = SleepsOf(f)
        /\ alone.result = f.result

\* C12: two calls of Client.request on the same Client, back-to-back or
\* interleaved, are independent: the attempts, the delays and the result of
\* each call are those of the call run alone against the same responses.
C12_CallsIndependent ==
    /\ pc = "done" => SameAsAlone(CurrentFrame)
    /\ peer.pc = "done" => SameAsAlone(peer)

C12_Witness ==
    /\ pc = "done" /\ NumAttempts = 4 /\ SameAsAlone(CurrentFrame)
    /\ peer.pc = "wait" /\ peer.attempt = 2 /\ calls = 1

C17_SameHeadersMethodURL ==
    \A i \in 1..Len(SentRequests) :
        /\ SentRequests[i].auth = <<"Bearer ", client.token>>
        /\ SentRequests[i].ctype = "application/json"
        /\ SentRequests[i].ua = "Via-YNAB/2.0"
        /\ SentRequests[i].method = SentRequests[1].method
        /\ SentRequests[i].url = SentRequests[1].url
        /\ SentRequests[i].method = reqIn.method
        /\ SentRequests[i].url = <<client.baseURL, reqIn.endpoint>>

C17_Witness ==
    /\ Len(SentRequests) = 3
    /\ inflight # <<>>
    /\ reqIn.method = "POST"
    /\ SentRequests[3].auth = <<"Bearer ", client.token>>

\* C18: once the client holds a non-empty default budget ID, the ID it
\* holds never changes, no call of GetBudgets is started, and every
\* GetDefaultBudgetID returns that ID at once, without an HTTP request.
C18_CachedBudgetID ==
    [][client.defaultBudgetID # ""
       => /\ client'.defaultBudgetID = client.defaultBudgetID
          /\ \A i \in 1..Len(stack') : stack'[i].fn # "GetDefaultBudgetID"
          /\ reqIn' # GetBudgetsArgs
          /\ (calls' = calls + 1 /\ ret'.fn = "GetDefaultBudgetID"
              => /\ pc = "idle" /\ pc' = "idle"
                 /\ ret'.val = client.defaultBudgetID
                 /\ ret'.err = NoErr
                 /\ ret'.n = 0
                 /\ inflight' = <<>> /\ events' = <<>>)]_vars

C18_Witness ==
    /\ calls = 2
    /\ ret.set /\ ret.fn = "GetDefaultBudgetID"
    /\ ret.n = 0 /\ ret.val = "b1" /\ ret.err = NoErr
    /\ client.defaultBudgetID = "b1"

\* C19: CreateTransaction makes HTTP attempts only for a request whose
\* AccountID and Date are non-empty; otherwise it returns the error of
\* Validate after zero attempts.  When Validate succeeds, an empty Cleared
\* has become "uncleared" and a non-empty Cleared is unchanged.
C19_CreateTransactionValidates ==
    /\ \A i \in 1..Len(stack) :
          stack[i].fn = "CreateTransaction"
          => /\ stack[i].arg.AccountID # "" /\ stack[i].arg.Date # ""
             /\ stack[i].req.Cleared =
                   IF stack[i].arg.Cleared = "" THEN "uncleared" ELSE stack[i].arg.Cleared
             /\ \A k \in 1..Len(SentRequests) :
                   SentRequests[k].method = "POST"
                   => SentRequests[k].body \in
                         {SubSeq(TxnBody(stack[i].req), j, 2) : j \in 1..3}
    /\ ret.set /\ ret.fn = "CreateTransaction"
       => IF ret.arg.AccountID = "" \/ ret.arg.Date = ""
          THEN /\ ret.n = 0
               /\ ret.err = IF ret.arg.AccountID = ""
                            THEN ErrorsNew("account_id is required")
                            ELSE ErrorsNew("date is required")
          ELSE /\ ret.req.Cleared =
                     IF ret.arg.Cleared = "" THEN "uncleared" ELSE ret.arg.Cleared
               /\ ret.err \notin {ErrorsNew("account_id is required"),
                                  ErrorsNew("date is required")}

C19_Witness ==
    /\ ret.set /\ ret.fn = "CreateTransaction"
    /\ ret.arg = Txn("bud", "acc-1", "", "cleared")
    /\ ret.err = ErrorsNew("date is required")
    /\ ret.n = 0
    /\ pc = "idle" /\ calls = 2

\* C20: for a call made with a non-empty request body, every attempt sends
\* the body bytes of the first attempt.
C20_SameBodyOnRetry ==
    reqIn.hasBody
    => \A i \in 1..Len(SentRequests) : SentRequests[i].body = SentRequests[1].body

\* the outcome of an attempt that failed in the transport
NetErrOutcome(ev) ==
    [ev EXCEPT !.kind = "neterr", !.status = 0, !.hdr = <<>>, !.body = NoBody]

\* the outcomes `outs` with those at the positions S replaced by transport failures
WithTransportFailures(outs, S) ==
    [i \in 1..Len(outs) |-> IF i \in S THEN NetErrOutcome(outs[i]) ELSE outs[i]]

ServerErrorPositions(outs) == {i \in 1..Len(outs) : Is5xx(outs[i])}

\* C21: a transport failure is handled like a 5xx response: replacing any
\* of the 5xx responses of a call by transport failures gives a call with
\* the same number of attempts and the same sleeps, ending at the same
\* point; every transport failure is one attempt of the at most 4.
C21_TransportLikeServerError ==
    pc = "done"
    => LET outs == AttemptsOf(CurrentFrame)
       IN  /\ \A S \in SUBSET ServerErrorPositions(outs) :
                 LET alone == RunAlone(WithTransportFailures(outs, S), reqOK)
                 IN  /\ alone.finished
                     /\ alone.attempts = NumAttempts
                     /\ alone.sleeps = SleepsOf(CurrentFrame)
           /\ Cardinality({i \in 1..Len(outs) : IsTransport(outs[i])}) <= attempt
           /\ NumAttempts <= MaxRetries + 1

C21_Witness ==
    /\ pc = "done"
    /\ NumAttempts = 4
    /\ \E i, j \in AttemptIdx : Is5xx(events[i]) /\ events[j].kind = "neterr"
    /\ \A i \in AttemptIdx : Is5xx(events[i]) \/ events[i].kind = "neterr"
    /\ SleepsOf(CurrentFrame) = <<1, 2, 4>>

C23_AllThrottledExhausts ==
    (NumAttempts > 0 /\ \A i \in AttemptIdx : Is429(events[i]))
    => /\ NumAttempts <= MaxRetries + 1
       /\ attempt = NumAttempts
       /\ pc = "done"
          => /\ NumAttempts = MaxRetries + 1
             /\ result.err # NoErr
             /\ IsRateLimitError(result.err)

C23_Witness ==
    /\ pc = "done"
    /\ NumAttempts = 4
    /\ \A i \in AttemptIdx : Is429(events[i])
    /\ IsRateLimitError(result.err)

\* the call went on after the attempt events[j] instead of returning
Retried(j) == (\E k \in AttemptIdx : k > j) \/ pc # "done"

\* C24: the executor and the predicate agree: a response with a status
\* outside 2xx, received while attempts remain, is retried if and only if
\* IsRetryable is true of a YNABError with that status.
C24_ExecutorAgreesWithIsRetryable ==
    \A j \in AttemptIdx :
        (events[j].kind = "resp" /\ ~Is2xx(events[j]) /\ AttemptsUpTo(j) <= MaxRetries)
        => (Retried(j) <=> YIsRetryable(YNABError(Msg("", 0, ""), events[j].status, "", "")))

C24_Witness ==
    /\ pc = "done"
    /\ NumAttempts = 3
    /\ \E i, j, k \in AttemptIdx :
          /\ i < j /\ j < k
          /\ Is429(events[i]) /\ events[j].status = 599 /\ events[k].status = 600
          /\ Retried(i) /\ Retried(j) /\ ~Retried(k)

Methods == {"GET", "POST", "PUT", "PATCH", "DELETE"}

\* C25: the retry decision does not depend on the HTTP method: a finished
\* call of any method has the attempts and the sleeps that the loop, which
\* never reads the method, computes from its responses alone; a POST, PUT,
\* PATCH or DELETE answered with 5xx or 429 while attempts remain is sent again.
C25_MethodIndependent ==
    /\ reqIn.method \in Methods /\ pc = "done"
       => LET alone == RunAlone(AttemptsOf(CurrentFrame), TRUE)
          IN  /\ alone.finished
              /\ alone.attempts = NumAttempts
              /\ alone.sleeps = SleepsOf(CurrentFrame)
    /\ \A j \in AttemptIdx :
          ((Is5xx(events[j]) \/ Is429(events[j])) /\ AttemptsUpTo(j) <= MaxRetries)
          => Retried(j)

C25_Witness ==
    /\ reqIn.method = "POST"
    /\ pc = "done"
    /\ NumAttempts = 4
    /\ \E i, j \in AttemptIdx : Is5xx(events[i]) /\ Is429(events[j])
    /\ \A i \in 1..4 : SentRequests[i].method = "POST"

\* C26: every call of Client.request terminates: once entered, the call
\* reaches its return, having made at most 4 attempts, whatever the server
\* answers.
C26_CallTerminates ==
    (pc = "loop" /\ attempt = 0) ~> (pc = "done" /\ result.set /\ NumAttempts <= MaxRetries + 1)

C26_Witness ==
    /\ pc = "done"
    /\ result.set
    /\ NumAttempts = MaxRetries + 1
    /\ Cardinality(SleepIdx) = 7

\* what the server or the transport answered to the attempts of a frame
OutcomesOf(f) ==
    LET as == AttemptsOf(f)
    IN  [i \in 1..Len(as) |-> [kind |-> as[i].kind, status |-> as[i].status,
                               hdr |-> as[i].hdr, body |-> as[i].body]]

IsPrefix(s, t) == Len(s) <= Len(t) /\ SubSeq(t, 1, Len(s)) = s

\* C27: two runs of Client.request against the same sequence of responses
\* make the same number of attempts, sleep the same durations in the same
\* order and return the same result.
C27_Deterministic ==
    (/\ pc = "done" /\ peer.pc = "done"
     /\ reqOK = peer.reqOK
     /\ IsPrefix(OutcomesOf(CurrentFrame), OutcomesOf(peer)))
    => /\ Len(AttemptsOf(CurrentFrame)) = Len(AttemptsOf(peer))
       /\ SleepsOf(CurrentFrame) = SleepsOf(peer)
       /\ result = peer.result

C27_Witness ==
    /\ pc = "done" /\ peer.pc = "done"
    /\ NumAttempts = 3
    /\ OutcomesOf(CurrentFrame) = OutcomesOf(peer)
    /\ \E i, j \in AttemptIdx : Is429(events[i]) /\ Is5xx(events[j])
    /\ result = peer.result /\ result.err = NoErr

\* C28: after MoveCmd returns without error, the sum of the budgeted
\* amounts of the month is what it was before the move, and when the source
\* and the destination differ the source is lower and the destination
\* higher by the amount.
C28_MovePreservesSum ==
    (move.stage = "returned" /\ move.err = NoErr)
    => /\ SumOver(ynab, CategoryIDs) = SumOver(move.before, CategoryIDs)
       /\ move.fromID # move.toID
          => /\ ynab[move.fromID] = move.before[move.fromID] - move.amount
             /\ ynab[move.toID] = move.before[move.toID] + move.amount

\* C29: when the destination update of MoveCmd fails, MoveCmd returns an
\* error and both categories have the budgeted amounts they had before.
C29_FailedMoveRestoresSource ==
    (/\ move.stage = "returned"
     /\ move.err # NoErr
     /\ move.err.type = "wrap"
     /\ move.err.text = "failed to update destination category")
    => /\ ynab[move.fromID] = move.fromBudgeted
       /\ ynab = move.before

\* the request made by GetBudgets for GetDefaultBudgetID has returned an
\* error, an unparsable body or an empty list of budgets
LazyLoadFails ==
    /\ pc = "done"
    /\ stack # <<>>
    /\ Head(stack).fn = "GetDefaultBudgetID"
    /\ \/ result.err # NoErr
       \/ ~result.body.parsable
       \/ result.body.budgets = <<>>

\* C30: when the lazy load of GetDefaultBudgetID fails, the caller gets an
\* error and the cached ID stays empty; with an empty cache a call of
\* GetDefaultBudgetID never returns at once but calls GetBudgets again.
C30_FailedLoadLeavesCacheEmpty ==
    /\ [](ret.set /\ ret.fn = "GetDefaultBudgetID" /\ ret.err # NoErr
          => client.defaultBudgetID = "" /\ ret.val = "")
    /\ [][/\ LazyLoadFails
             => /\ client'.defaultBudgetID = ""
                /\ ret'.set /\ ret'.err # NoErr /\ ret'.val = ""
                /\ pc' = "idle" /\ stack' = <<>>
          /\ (pc = "idle" /\ client.defaultBudgetID = "" /\ ret'.fn = "GetDefaultBudgetID")
             => FALSE
          /\ (pc = "idle" /\ client.defaultBudgetID = "" /\ stack' # <<>>
              /\ Head(stack').fn = "GetDefaultBudgetID")
             => reqIn' = GetBudgetsArgs /\ pc' = "loop"]_vars

C30_Witness ==
    /\ ret.set /\ ret.fn = "GetDefaultBudgetID"
    /\ ret.err = ErrorsNew("no budgets found for this account")
    /\ ret.val = "" /\ ret.n = 2
    /\ client.defaultBudgetID = ""
    /\ calls = 2

====
